---- MODULE Spec2Model ----
(***************************************************************************)
(* Model of rally/common/validation.py: the validator registration         *)
(* decorator add(), RequiredPlatformValidator.validate and the tiered      *)
(* orchestration ValidatablePluginMixin.validate.                          *)
(*                                                                         *)
(* The plugin registry (plugin.Plugin.get, _meta_get, _meta_setdefault) is *)
(* an external collaborator: a class is identified by its registry name,   *)
(* and the meta key "validators" of every class is the variable            *)
(* validators.  Validators plugged into the framework raise subclasses of  *)
(* Exception and return None or a ValidationResult, as Validator.validate  *)
(* documents.                                                              *)
(***************************************************************************)
EXTENDS Integers, Sequences, FiniteSets, TLC

VARIABLES validators, last, default_meta

vars == <<validators, last, default_meta>>

(* ------------------------------ bounds -------------------------------- *)

\* total number of declarations stored over all classes
MaxDecls == 3

\* total number of declarations stored in DEFAULT_META dicts
MaxDefaults == 3

(* --------------------------- class universe --------------------------- *)

\* plugins registered under the validatable base (cls.get resolves them)
PluginNames == {"plug"}

\* names handed to validate(name=...): a registered and an unregistered one
CallNames == PluginNames \cup {"ghost"}

\* subclasses of RequiredPlatformValidator, RequiredPlatformValidator included
RPVClasses == {"required_platform"}

\* concrete validators that are not platform validators
SimpleValidators == {"v_none", "v_true", "v_fail", "v_init", "v_exc"}

\* every class Validator.get can resolve
ValidatorClasses == RPVClasses \cup SimpleValidators

Classes == PluginNames \cup ValidatorClasses

\* a validator name no class is registered under
UnknownValidator == "v_missing"

\* what validate() of a concrete non-platform validator does
Behaviour ==
  [c \in SimpleValidators |->
     CASE c = "v_none" -> "none"
       [] c = "v_true" -> "true"
       [] c = "v_fail" -> "fail"
       [] c = "v_init" -> "raise_init"
       [] c = "v_exc"  -> "raise_validate"]

\* variant: the platform tier runs first
TiersPlatformFirst == <<"platform", "syntax", "semantic">>

\* the order of the outer loop of validate
Tiers == <<"syntax", "platform", "semantic">>

TierNames == {"semantic", "syntax", "platform"}

(* ------------------------------ values -------------------------------- *)

\* Python None where a string is expected
NoneStr == "<None>"

\* Python None where an object is expected
NoneVal == [kind |-> "None"]

\* the empty kwargs dict
NoKwargs == <<>>

ValidationResult(is_valid, msg, etype, etraceback) ==
  [kind |-> "ValidationResult", is_valid |-> is_valid, msg |-> msg,
   etype |-> etype, etraceback |-> etraceback]

\* Validator.fail
Fail(msg) == ValidationResult(FALSE, msg, NoneStr, NoneStr)

\* dict.get(key, default)
Get(d, key, default) == IF key \in DOMAIN d THEN d[key] ELSE default

(* --------------------- RequiredPlatformValidator ----------------------- *)

\* variant: empty users always fail, the admin credential is not consulted
RPVValidateNoFallback(platform, admin, users, credentials) ==
  IF ~(admin \/ users)
    THEN Fail(<<"You should specify admin=True or users=True or both.">>)
    ELSE
      LET all == IF credentials = <<>> THEN <<>> ELSE credentials[1]
          creds == Get(all, platform, <<>>)
      IN  IF admin /\ Get(creds, "admin", NoneStr) = NoneStr
            THEN Fail(<<"No admin credential for", platform>>)
          ELSE IF users /\ Len(Get(creds, "users", <<>>)) = 0
            THEN Fail(<<"No user credentials for", platform>>)
          ELSE NoneVal

\* RequiredPlatformValidator.validate on an instance built with
\* platform, admin, users; credentials is <<>> for None and <<dict>> otherwise
RPVValidate(platform, admin, users, credentials) ==
  IF ~(admin \/ users)
    THEN Fail(<<"You should specify admin=True or users=True or both.">>)
    ELSE
      LET all == IF credentials = <<>> THEN <<>> ELSE credentials[1]
          creds == Get(all, platform, <<>>)
      IN  IF admin /\ Get(creds, "admin", NoneStr) = NoneStr
            THEN Fail(<<"No admin credential for", platform>>)
          ELSE IF users /\ Len(Get(creds, "users", <<>>)) = 0
                  /\ Get(creds, "admin", NoneStr) = NoneStr
            THEN Fail(<<"No user credentials for", platform>>)
          ELSE NoneVal

(* -------------------------------- add ---------------------------------- *)

IsRPV(c) == c \in RPVClasses

IsValidator(c) == c \in ValidatorClasses

\* variant: the name of the added validator is not looked at
AddRaisesAnyValidator(name, plugin) == IsRPV(plugin) \/ IsValidator(plugin)

\* the check at the head of add()'s wrapper
AddRaises(name, plugin) ==
  \/ IsRPV(plugin)
  \/ IsValidator(plugin) /\ name # "required_platform"

Decl(name, kwargs) == [name |-> name, args |-> <<>>, kwargs |-> kwargs]

\* plugin._meta_setdefault("validators", []); _meta_get(...).append(...)
AppendDecl(vals, plugin, name, kwargs) ==
  [vals EXCEPT ![plugin] = Append(@, Decl(name, kwargs))]

TotalDecls == LET RECURSIVE Sum(_)
                  Sum(S) == IF S = {} THEN 0
                            ELSE LET c == CHOOSE x \in S : TRUE
                                 IN  Len(validators[c]) + Sum(S \ {c})
              IN  Sum(Classes)

(* ----------------------------- add_default ----------------------------- *)

\* the classes add_default() decorates: a base class, two subclasses of it
\* and a subclass of a subclass
DefaultClasses == {"Validator", "required_platform", "platform_sub", "v_none"}

NoClass == "object"

\* the direct base class
Parent ==
  [c \in DefaultClasses |->
     CASE c = "Validator"         -> NoClass
       [] c = "required_platform" -> "Validator"
       [] c = "v_none"            -> "Validator"
       [] c = "platform_sub"      -> "required_platform"]

\* attribute lookup of DEFAULT_META from class c: the nearest class, c
\* included, that has the attribute in its own namespace; meta[c] is <<>>
\* when c has none of its own and <<dict>> otherwise
RECURSIVE Owner(_, _)
Owner(meta, c) ==
  IF c = NoClass THEN NoClass
  ELSE IF meta[c] # <<>> THEN c
  ELSE Owner(meta, Parent[c])

\* hasattr(plugin, "DEFAULT_META")
HasDefaultMeta(meta, plugin) == Owner(meta, plugin) # NoClass

\* the wrapper of add_default: the dict found by attribute lookup, created
\* on the class only when lookup finds none, gets the declaration appended
AddDefaultCall(meta, name, kwargs, plugin) ==
  LET m1 == IF ~HasDefaultMeta(meta, plugin)
              THEN [meta EXCEPT ![plugin] = << <<>> >>]
              ELSE meta
      o  == Owner(m1, plugin)
      d  == m1[o][1]
      d1 == IF "validators" \in DOMAIN d THEN d ELSE [validators |-> <<>>]
      d2 == [d1 EXCEPT !["validators"] = Append(@, Decl(name, kwargs))]
  IN  [m1 EXCEPT ![o] = <<d2>>]

\* plugin.DEFAULT_META.get("validators", []) as class c sees it
DefaultValidators(meta, c) ==
  IF ~HasDefaultMeta(meta, c) THEN <<>>
  ELSE Get(meta[Owner(meta, c)][1], "validators", <<>>)

TotalDefaults == LET RECURSIVE Sum(_)
                     Sum(S) == IF S = {} THEN 0
                               ELSE LET c == CHOOSE x \in S : TRUE
                                    IN  (IF default_meta[c] = <<>> THEN 0
                                         ELSE Len(Get(default_meta[c][1],
                                                      "validators", <<>>)))
                                        + Sum(S \ {c})
                 IN  Sum(DefaultClasses)

(* ------------------ ValidatablePluginMixin.validate -------------------- *)

\* cls.get(name, ...) finds a plugin
PluginFound(name) == name \in PluginNames

\* Validator.get(name) finds a validator class
Resolves(name) == name \in ValidatorClasses

\* variant: an unknown plugin yields no result at all
PluginNotFoundEmpty(name) == <<>>

\* the result list of the PluginNotFound branch
PluginNotFoundResults(name) ==
  << Fail(<<"There is no plugin with name:", name>>) >>

\* vtype as the list the code iterates: a single value is wrapped
VtypeList(vtype) == IF vtype.kind = "list" THEN vtype.val ELSE <<vtype.val>>

Range(s) == {s[i] : i \in DOMAIN s}

\* variant: only the first requested type is checked
WrongTypesFirstOnly(vtype) == {VtypeList(vtype)[1]} \ TierNames

WrongTypes(vtype) == Range(VtypeList(vtype)) \ TierNames

\* variant: the syntax flag is ignored
RequestedSyntaxAlways(vtype, tier) ==
  IF vtype.kind = "none" \/ tier = "syntax" THEN TRUE
  ELSE tier \in Range(VtypeList(vtype))

\* the three flags semantic, syntax, platform
Requested(vtype, tier) ==
  IF vtype.kind = "none" THEN TRUE ELSE tier \in Range(VtypeList(vtype))

\* variant: declarations whose name does not resolve are skipped
LoadValidatorsSkipUnknown(vals, plugin) ==
  LET decls == SelectSeq(vals[plugin], LAMBDA d : d.name \in ValidatorClasses)
  IN  [raised |-> FALSE,
       list |-> [i \in DOMAIN decls |->
                   [cls |-> decls[i].name, args |-> decls[i].args,
                    kwargs |-> decls[i].kwargs, pos |-> i]]]

\* _load_validators: raises PluginNotFound when a name does not resolve;
\* pos is the position of the declaration in the stored list
LoadValidators(vals, plugin) ==
  LET decls == vals[plugin]
  IN  IF \E i \in DOMAIN decls : ~Resolves(decls[i].name)
        THEN [raised |-> TRUE, list |-> <<>>]
        ELSE [raised |-> FALSE,
              list |-> [i \in DOMAIN decls |->
                          [cls |-> decls[i].name, args |-> decls[i].args,
                           kwargs |-> decls[i].kwargs, pos |-> i]]]

EmptyTiers == [raised |-> FALSE, syntax |-> <<>>, platform |-> <<>>,
               semantic |-> <<>>]

\* an entry of a tier list; src records the declaration it came from:
\* <<i, 0>> is the plugin's i-th declaration, <<i, j>> the j-th declaration
\* of the validator named by the plugin's i-th declaration
Entry(e, i, j) == [cls |-> e.cls, args |-> e.args, kwargs |-> e.kwargs,
                   src |-> <<i, j>>]

\* variant: the declarations of a composite validator are taken only when
\* the composite itself is, under the semantic flag
RECURSIVE PartitionNestedUnderSemantic(_, _, _, _, _)
PartitionNestedUnderSemantic(vals, pv, i, vtype, acc) ==
  IF i > Len(pv) THEN acc
  ELSE
    LET e == pv[i] IN
    IF IsRPV(e.cls)
      THEN PartitionNestedUnderSemantic(vals, pv, i + 1, vtype,
             IF Requested(vtype, "platform")
               THEN [acc EXCEPT !.platform = Append(@, Entry(e, i, 0))]
               ELSE acc)
      ELSE
        LET vv == LoadValidators(vals, e.cls) IN
        IF vv.raised THEN [acc EXCEPT !.raised = TRUE]
        ELSE IF vv.list # <<>>
          THEN
            LET a1 == IF Requested(vtype, "semantic")
                        THEN [acc EXCEPT !.semantic = Append(@, Entry(e, i, 0))]
                        ELSE acc
                a2 == IF Requested(vtype, "semantic") /\ Requested(vtype, "platform")
                        THEN [a1 EXCEPT !.platform =
                                @ \o [j \in DOMAIN vv.list |->
                                        Entry(vv.list[j], i, j)]]
                        ELSE a1
            IN  PartitionNestedUnderSemantic(vals, pv, i + 1, vtype, a2)
          ELSE PartitionNestedUnderSemantic(vals, pv, i + 1, vtype,
                 IF Requested(vtype, "syntax")
                   THEN [acc EXCEPT !.syntax = Append(@, Entry(e, i, 0))]
                   ELSE acc)

\* the partition loop over plugin_validators, from position i on
RECURSIVE Partition(_, _, _, _, _)
Partition(vals, pv, i, vtype, acc) ==
  IF i > Len(pv) THEN acc
  ELSE
    LET e == pv[i] IN
    IF IsRPV(e.cls)
      THEN Partition(vals, pv, i + 1, vtype,
             IF Requested(vtype, "platform")
               THEN [acc EXCEPT !.platform = Append(@, Entry(e, i, 0))]
               ELSE acc)
      ELSE
        LET vv == LoadValidators(vals, e.cls) IN
        IF vv.raised THEN [acc EXCEPT !.raised = TRUE]
        ELSE IF vv.list # <<>>
          THEN
            LET a1 == IF Requested(vtype, "semantic")
                        THEN [acc EXCEPT !.semantic = Append(@, Entry(e, i, 0))]
                        ELSE acc
                a2 == IF Requested(vtype, "platform")
                        THEN [a1 EXCEPT !.platform =
                                @ \o [j \in DOMAIN vv.list |->
                                        Entry(vv.list[j], i, j)]]
                        ELSE a1
            IN  Partition(vals, pv, i + 1, vtype, a2)
          ELSE Partition(vals, pv, i + 1, vtype,
                 IF Requested(vtype, "syntax")
                   THEN [acc EXCEPT !.syntax = Append(@, Entry(e, i, 0))]
                   ELSE acc)

\* validator_cls(*args, **kwargs) raises
ConstructRaises(cls, kwargs, beh) ==
  IF IsRPV(cls)
    THEN \/ "platform" \notin DOMAIN kwargs
         \/ ~(DOMAIN kwargs \subseteq {"platform", "admin", "users"})
    ELSE \/ DOMAIN kwargs # {}
         \/ beh[cls] = "raise_init"

ExcResult(msg, etype) == ValidationResult(FALSE, msg, etype, "traceback")

\* validator.validate(...) of a constructed validator: the value returned,
\* or [kind |-> "raise"] when it raises
CallValidate(cls, kwargs, credentials, beh) ==
  IF IsRPV(cls)
    THEN RPVValidate(kwargs["platform"], Get(kwargs, "admin", FALSE),
                     Get(kwargs, "users", FALSE), credentials)
    ELSE CASE beh[cls] = "none" -> NoneVal
           [] beh[cls] = "true" -> ValidationResult(TRUE, <<>>, NoneStr, NoneStr)
           [] beh[cls] = "fail" -> Fail(<<"failed", cls>>)
           [] OTHER -> [kind |-> "raise"]

\* variant: a validator without a result counts as failed
OrFailure(x) == IF x.kind = "None" THEN Fail(<<"no result">>) ELSE x

\* x or ValidationResult(True)
OrSuccess(x) ==
  IF x.kind = "None" THEN ValidationResult(TRUE, <<>>, NoneStr, NoneStr) ELSE x

\* the body of the inner loop for one entry: the event it leaves in the log
Execute(tier, e, credentials, beh) ==
  LET ev(stage, result) ==
        [tier |-> tier, cls |-> e.cls, src |-> e.src, stage |-> stage,
         result |-> result]
  IN  IF ConstructRaises(e.cls, e.kwargs, beh)
        THEN ev("init", ExcResult(<<"init", e.cls>>, "TypeError"))
        ELSE
          LET r == CallValidate(e.cls, e.kwargs, credentials, beh) IN
          IF r.kind = "raise"
            THEN ev("validate", ExcResult(<<"validate", e.cls>>, "RuntimeError"))
            ELSE ev("done", OrSuccess(r))

\* variant: the first exception ends the tier
RunTierAbortOnException(tier, entries, credentials, beh) ==
  LET all == [k \in DOMAIN entries |->
                Execute(tier, entries[k], credentials, beh)]
      raising == {k \in DOMAIN all : all[k].stage # "done"}
  IN  IF raising = {} THEN all
      ELSE SubSeq(all, 1, CHOOSE k \in raising : \A m \in raising : k <= m)

\* the inner loop over one tier
RunTier(tier, entries, credentials, beh) ==
  [k \in DOMAIN entries |-> Execute(tier, entries[k], credentials, beh)]

\* SelectSeq on the events whose result is a failure, as results
RECURSIVE Failures(_)
Failures(log) ==
  IF log = <<>> THEN <<>>
  ELSE (IF ~log[1].result.is_valid THEN <<log[1].result>> ELSE <<>>)
       \o Failures(Tail(log))

\* variant: a failing tier does not end the outer loop
RECURSIVE RunTiersNoBreak(_, _, _, _, _)
RunTiersNoBreak(parts, t, credentials, beh, acc) ==
  IF t > Len(Tiers) THEN acc
  ELSE
    LET events == RunTier(Tiers[t], parts[Tiers[t]], credentials, beh)
    IN  RunTiersNoBreak(parts, t + 1, credentials, beh,
          [log |-> acc.log \o events,
           results |-> acc.results \o Failures(events)])

\* the outer loop over (syntax, platform, regular) from tier t on
RECURSIVE RunTiers(_, _, _, _, _)
RunTiers(parts, t, credentials, beh, acc) ==
  IF t > Len(Tiers) THEN acc
  ELSE
    LET events == RunTier(Tiers[t], parts[Tiers[t]], credentials, beh)
        acc1 == [log |-> acc.log \o events,
                 results |-> acc.results \o Failures(events)]
    IN  IF acc1.results # <<>> THEN acc1
        ELSE RunTiers(parts, t + 1, credentials, beh, acc1)

Outcome(outcome, exc, results, log, loaded) ==
  [outcome |-> outcome, exc |-> exc, results |-> results, log |-> log,
   loaded |-> loaded]

\* validate after the plugin was found: vtype check, partition, execution
ValidateFound(vals, plugin, credentials, vtype, beh) ==
  IF vtype.kind # "none" /\ WrongTypes(vtype) # {}
    THEN Outcome("raised", "ValueError", <<>>, <<>>, FALSE)
  ELSE
    LET pv == LoadValidators(vals, plugin) IN
    IF pv.raised
      THEN Outcome("raised", "PluginNotFound", <<>>, <<>>, TRUE)
    ELSE
      LET parts == Partition(vals, pv.list, 1, vtype, EmptyTiers) IN
      IF parts.raised
        THEN Outcome("raised", "PluginNotFound", <<>>, <<>>, TRUE)
        ELSE
          LET run == RunTiers(parts, 1, credentials, beh,
                              [log |-> <<>>, results |-> <<>>])
          IN  Outcome("returned", NoneStr, run.results, run.log, TRUE)

\* ValidatablePluginMixin.validate as a whole
ValidateCall(vals, name, credentials, vtype, beh) ==
  IF ~PluginFound(name)
    THEN Outcome("returned", NoneStr, PluginNotFoundResults(name), <<>>, FALSE)
    ELSE ValidateFound(vals, name, credentials, vtype, beh)

\* variant: the declarations of the composite validators are appended to the
\* plugin's stored list instead of to the local platform list
StoredAfterExtendInPlace(vals, name, vtype) ==
  IF ~PluginFound(name) \/ (vtype.kind # "none" /\ WrongTypes(vtype) # {})
    THEN vals
  ELSE
    LET pv == LoadValidators(vals, name) IN
    IF pv.raised THEN vals
    ELSE
      LET parts == Partition(vals, pv.list, 1, vtype, EmptyTiers)
          nested == SelectSeq(parts.platform, LAMBDA e : e.src[2] > 0)
      IN  IF parts.raised THEN vals
          ELSE [vals EXCEPT ![name] =
                  @ \o [k \in DOMAIN nested |->
                          Decl(nested[k].cls, nested[k].kwargs)]]

\* the stored declaration lists after validate: _load_validators builds new
\* lists and the partition appends to local lists, nothing is written back
StoredAfterValidate(vals, name, vtype) == vals

(* ------------------------------ inputs -------------------------------- *)

Platform == "p1"

\* kwargs given to add("required_platform", ...)
RPVKwargs ==
  { NoKwargs, [platform |-> Platform, admin |-> TRUE] }

\* the declarations add() is called with
DeclInputs ==
  {Decl(n, NoKwargs) : n \in SimpleValidators \cup {UnknownValidator}}
    \cup {Decl("required_platform", k) : k \in RPVKwargs}

\* the classes add() decorates
AddTargets == PluginNames \cup {"v_none", "v_fail"} \cup RPVClasses

\* credentials given to validate(): None, or a dict of platforms
CredentialInputs ==
  { <<>>,
    << [p1 |-> [admin |-> "admin_cred", users |-> <<>>]] >> }

VtypeInputs ==
  { [kind |-> "none", val |-> <<>>],
    [kind |-> "single", val |-> "syntax"],
    [kind |-> "single", val |-> "bogus"],
    [kind |-> "list", val |-> <<"platform">>],
    [kind |-> "list", val |-> <<"syntax", "platform">>],
    [kind |-> "list", val |-> <<"semantic", "syntax">>],
    [kind |-> "list", val |-> <<"platform", "bogus">>] }

(* ------------------------------ actions ------------------------------- *)

Init ==
  /\ validators = [c \in Classes |-> <<>>]
  /\ last = [op |-> "init"]
  /\ default_meta = [c \in DefaultClasses |-> <<>>]

\* @add(name, **kwargs) applied to the class plugin
Add(name, kwargs, plugin) ==
  /\ TotalDecls < MaxDecls
  /\ UNCHANGED default_meta
  /\ IF AddRaises(name, plugin)
       THEN /\ UNCHANGED validators
            /\ last' = [op |-> "add", name |-> name, kwargs |-> kwargs,
                        plugin |-> plugin, raised |-> TRUE,
                        before |-> validators]
       ELSE /\ validators' = AppendDecl(validators, plugin, name, kwargs)
            /\ last' = [op |-> "add", name |-> name, kwargs |-> kwargs,
                        plugin |-> plugin, raised |-> FALSE,
                        before |-> validators]

\* cls.validate(name, credentials, config, plugin_cfg, vtype=vtype)
Validate(name, credentials, vtype) ==
  /\ last' = [op |-> "validate", name |-> name, credentials |-> credentials,
              vtype |-> vtype, before |-> validators,
              ret |-> ValidateCall(validators, name, credentials, vtype,
                                   Behaviour)]
  /\ validators' = StoredAfterValidate(validators, name, vtype)
  /\ UNCHANGED default_meta

Next ==
  \/ \E d \in DeclInputs, p \in AddTargets : Add(d.name, d.kwargs, p)
  \/ \E n \in CallNames, c \in CredentialInputs, v \in VtypeInputs :
       Validate(n, c, v)

Spec == Init /\ [][Next]_vars

(* ------------- RequiredPlatformValidator called on its own ------------- *)

RPVPlatforms == {"p1", "p2"}

\* the credentials of one platform: "admin" missing, None or set;
\* "users" missing, empty or non-empty
PlatformCredentials ==
  LET admins == {<<>>, [admin |-> NoneStr], [admin |-> "admin_cred"]}
      users  == {<<>>, [users |-> <<>>], [users |-> <<"user_cred">>]}
  IN  {a @@ u : a \in admins, u \in users}

\* None, or a dict over some of the platforms
RPVCredentialInputs ==
  {<<>>} \cup
  UNION {{<<f>> : f \in [S -> PlatformCredentials]} : S \in SUBSET RPVPlatforms}

InitRPV ==
  /\ validators = [c \in Classes |-> <<>>]
  /\ last = [op |-> "init"]
  /\ default_meta = [c \in DefaultClasses |-> <<>>]

\* RequiredPlatformValidator(platform, admin, users).validate(credentials, ...)
RPVCall(platform, admin, users, credentials) ==
  /\ last' = [op |-> "rpv", platform |-> platform, admin |-> admin,
              users |-> users, credentials |-> credentials,
              result |-> RPVValidate(platform, admin, users, credentials)]
  /\ UNCHANGED <<validators, default_meta>>

NextRPV ==
  \E p \in RPVPlatforms, a \in BOOLEAN, u \in BOOLEAN,
     c \in RPVCredentialInputs : RPVCall(p, a, u, c)

SpecRPV == InitRPV /\ [][NextRPV]_vars

(* ------------------------ add_default on its own ----------------------- *)

\* the declarations add_default() is called with
DefaultDeclInputs ==
  { Decl("v_fail", NoKwargs),
    Decl("required_platform", [platform |-> Platform, admin |-> TRUE]) }

InitDefault ==
  /\ validators = [c \in Classes |-> <<>>]
  /\ last = [op |-> "init"]
  /\ default_meta = [c \in DefaultClasses |-> <<>>]

\* @add_default(name, **kwargs) applied to the class plugin
AddDefault(name, kwargs, plugin) ==
  /\ TotalDefaults < MaxDefaults
  /\ default_meta' = AddDefaultCall(default_meta, name, kwargs, plugin)
  /\ last' = [op |-> "add_default", name |-> name, kwargs |-> kwargs,
              plugin |-> plugin, raised |-> FALSE, before |-> default_meta]
  /\ UNCHANGED validators

NextDefault ==
  \E d \in DefaultDeclInputs, p \in DefaultClasses :
    AddDefault(d.name, d.kwargs, p)

SpecDefault == InitDefault /\ [][NextDefault]_vars

(* ============================ properties =============================== *)

IsValidate == last.op = "validate"

Returned == IsValidate /\ last.ret.outcome = "returned"

\* the tiers a call asks for, read off its vtype argument
AskedTiers(vtype) ==
  CASE vtype.kind = "none"   -> {"syntax", "platform", "semantic"}
    [] vtype.kind = "single" -> {vtype.val}
    [] vtype.kind = "list"   -> {vtype.val[i] : i \in DOMAIN vtype.val}

\* position of a tier in the pipeline syntax, platform, semantic
Rank(tier) == CASE tier = "syntax" -> 1 [] tier = "platform" -> 2
                [] tier = "semantic" -> 3

Failed(e) == ~e.result.is_valid

ResultsOf(events) == [i \in DOMAIN events |-> events[i].result]

SrcBefore(a, b) == a[1] < b[1] \/ (a[1] = b[1] /\ a[2] < b[2])

\* C1: once a tier has produced a failure no validator of a later tier is
\* instantiated or executed, and the returned list is exactly the failures
\* of that tier
C1_ShortCircuit ==
  Returned =>
    LET log == last.ret.log IN
    \A i \in DOMAIN log :
      Failed(log[i]) =>
        /\ \A j \in DOMAIN log : Rank(log[j].tier) <= Rank(log[i].tier)
        /\ last.ret.results =
             ResultsOf(SelectSeq(log, LAMBDA e :
                         e.tier = log[i].tier /\ Failed(e)))

C1_Witness ==
  /\ Returned
  /\ "platform" \in AskedTiers(last.vtype)
  /\ \E k \in DOMAIN validators["plug"] :
       /\ validators["plug"][k].name = "required_platform"
       /\ \E i \in DOMAIN last.ret.log :
            /\ last.ret.log[i].tier = "syntax"
            /\ Failed(last.ret.log[i])
            /\ last.ret.log[i].src[1] > k
  /\ Len(last.ret.results) = 1

\* C2: validators run in the order syntax, platform, semantic whatever the
\* order of registration, inside a tier in the order of the declaration
\* list, and the failures are returned in the order of execution
C2_ExecutionOrder ==
  Returned =>
    LET log == last.ret.log IN
    /\ \A i, j \in DOMAIN log :
         i < j =>
           \/ Rank(log[i].tier) < Rank(log[j].tier)
           \/ /\ log[i].tier = log[j].tier
              /\ SrcBefore(log[i].src, log[j].src)
    /\ PluginFound(last.name) =>
         last.ret.results = ResultsOf(SelectSeq(log, Failed))

C2_Witness ==
  /\ Returned
  /\ \E i, j, k \in DOMAIN last.ret.log :
       /\ i < j /\ j < k
       /\ last.ret.log[i].tier = "syntax"
       /\ last.ret.log[j].tier = "platform"
       /\ last.ret.log[k].tier = "semantic"
       /\ last.ret.log[k].src[1] < last.ret.log[i].src[1]
  /\ last.ret.results # <<>>

\* C3: an exception in construction or in validate() becomes a failure
\* result with etype and etraceback set, the rest of the tier still runs,
\* and a tier with k failing validators contributes exactly k results
C3_DeclarationIsolated ==
  (Returned /\ PluginFound(last.name)) =>
    LET log == last.ret.log
        parts == Partition(last.before,
                           LoadValidators(last.before, last.name).list,
                           1, last.vtype, EmptyTiers)
        inTier(t) == SelectSeq(log, LAMBDA e : e.tier = t)
    IN  /\ \A t \in TierNames :
             inTier(t) # <<>> =>
               /\ Len(inTier(t)) = Len(parts[t])
               /\ \A k \in DOMAIN parts[t] : inTier(t)[k].src = parts[t][k].src
        /\ \A i \in DOMAIN log :
             log[i].stage \in {"init", "validate"} =>
               /\ ~log[i].result.is_valid
               /\ log[i].result.etype # NoneStr
               /\ log[i].result.etraceback # NoneStr
        /\ Len(last.ret.results) = Cardinality({i \in DOMAIN log : Failed(log[i])})

C3_Witness ==
  /\ Returned
  /\ \E i, j, k \in DOMAIN last.ret.log :
       /\ i < j /\ j < k
       /\ last.ret.log[i].stage = "init"
       /\ last.ret.log[j].stage = "validate"
       /\ last.ret.log[i].tier = last.ret.log[k].tier
  /\ Len(last.ret.results) = 2

\* the call names a registered plugin and asks only for known tiers
WellFormedCall ==
  IsValidate /\ last.name \in PluginNames
             /\ AskedTiers(last.vtype) \subseteq {"syntax", "platform", "semantic"}

\* some name the call has to resolve is not registered: a declaration of the
\* plugin, or a declaration of a non-platform validator the plugin declares
UnresolvedName(vals, plugin) ==
  LET unknown(c) == \E k \in DOMAIN vals[c] :
                      vals[c][k].name \notin ValidatorClasses
  IN  \/ unknown(plugin)
      \/ \E k \in DOMAIN vals[plugin] :
            /\ vals[plugin][k].name \in ValidatorClasses \ RPVClasses
            /\ unknown(vals[plugin][k].name)

\* C4 as claimed: for a registered plugin and a valid vtype validate never
\* raises, a declared validator name that does not resolve included
C4_NeverPropagates == WellFormedCall => last.ret.outcome = "returned"

\* C4 as amended: for a registered plugin and a valid vtype validate raises
\* exactly when a declared validator name does not resolve (PluginNotFound,
\* before any validator runs); exceptions of construction and of validate()
\* are returned as results with is_valid false
C4_PropagatesOnlyUnresolved ==
  WellFormedCall =>
    /\ last.ret.outcome = "raised" <=> UnresolvedName(last.before, last.name)
    /\ last.ret.outcome = "raised" =>
         last.ret.exc = "PluginNotFound" /\ last.ret.log = <<>>
    /\ last.ret.outcome = "returned" =>
         \A i \in DOMAIN last.ret.log :
           last.ret.log[i].stage \in {"init", "validate"} =>
             \E r \in DOMAIN last.ret.results :
               /\ last.ret.results[r] = last.ret.log[i].result
               /\ ~last.ret.results[r].is_valid

C4_Witness ==
  /\ WellFormedCall
  /\ last.ret.outcome = "returned"
  /\ \E i, j \in DOMAIN last.ret.log :
       /\ last.ret.log[i].stage = "init"
       /\ last.ret.log[j].stage = "validate"
  /\ Len(last.ret.results) >= 2

\* C5: an unregistered plugin name gives exactly one result, is_valid false,
\* naming the plugin, for every vtype, and nothing is loaded or executed
C5_PluginNotFound ==
  (IsValidate /\ last.name \notin PluginNames) =>
    /\ last.ret.outcome = "returned"
    /\ Len(last.ret.results) = 1
    /\ ~last.ret.results[1].is_valid
    /\ \E k \in DOMAIN last.ret.results[1].msg :
         last.ret.results[1].msg[k] = last.name
    /\ last.ret.log = <<>>
    /\ ~last.ret.loaded

C5_Witness ==
  /\ IsValidate
  /\ last.name \notin PluginNames
  /\ "bogus" \in AskedTiers(last.vtype)
  /\ last.ret.outcome = "returned"
  /\ validators["plug"] # <<>>

\* C6: for a registered plugin a vtype with a value outside syntax, platform,
\* semantic raises the configuration error before anything is loaded
C6_UnknownTierRaises ==
  (IsValidate /\ last.name \in PluginNames
     /\ ~(AskedTiers(last.vtype) \subseteq {"syntax", "platform", "semantic"})) =>
    /\ last.ret.outcome = "raised"
    /\ last.ret.exc = "ValueError"
    /\ ~last.ret.loaded
    /\ last.ret.log = <<>>
    /\ last.ret.results = <<>>

C6_Witness ==
  /\ IsValidate
  /\ last.name \in PluginNames
  /\ last.vtype.kind = "list"
  /\ "bogus" \in AskedTiers(last.vtype)
  /\ "platform" \in AskedTiers(last.vtype)
  /\ validators[last.name] # <<>>
  /\ last.ret.outcome = "raised"

IsAddRequiredPlatform == last.op = "add" /\ last.name = "required_platform"

Appended ==
  validators = [last.before EXCEPT ![last.plugin] =
                  Append(@, [name |-> last.name, args |-> <<>>,
                             kwargs |-> last.kwargs])]

\* C7 as claimed: add("required_platform") raises on a class that is not a
\* RequiredPlatformValidator subclass and appends on one that is
C7_RequiredPlatformOnlyOnRPV ==
  IsAddRequiredPlatform =>
    IF last.plugin \in RPVClasses
      THEN ~last.raised /\ Appended
      ELSE last.raised

\* C7 as amended: add("required_platform") raises on a subclass of
\* RequiredPlatformValidator and stores nothing; on any other class it
\* succeeds and appends the declaration to that class's own list only
C7_RequiredPlatformNotOnRPV ==
  IsAddRequiredPlatform =>
    IF last.plugin \in RPVClasses
      THEN last.raised /\ validators = last.before
      ELSE ~last.raised /\ Appended

C7_Witness ==
  /\ IsAddRequiredPlatform
  /\ last.plugin \in SimpleValidators
  /\ ~last.raised
  /\ Len(validators[last.plugin]) = 2

HasAdmin(credentials, platform) ==
  /\ credentials # <<>>
  /\ platform \in DOMAIN credentials[1]
  /\ "admin" \in DOMAIN credentials[1][platform]
  /\ credentials[1][platform]["admin"] # NoneStr

HasUsers(credentials, platform) ==
  /\ credentials # <<>>
  /\ platform \in DOMAIN credentials[1]
  /\ "users" \in DOMAIN credentials[1][platform]
  /\ credentials[1][platform]["users"] # <<>>

\* C8: RequiredPlatformValidator.validate fails exactly when neither admin
\* nor users is asked for, or admin is asked for without an admin
\* credential, or users is asked for with neither users nor an admin
\* credential; otherwise it returns no failure
C8_RequiredPlatformTable ==
  last.op = "rpv" =>
    LET fails == last.result.kind = "ValidationResult" /\ ~last.result.is_valid
        admin == HasAdmin(last.credentials, last.platform)
        users == HasUsers(last.credentials, last.platform)
    IN  /\ fails <=> \/ ~last.admin /\ ~last.users
                     \/ last.admin /\ ~admin
                     \/ last.users /\ ~users /\ ~admin
        /\ ~fails => last.result = NoneVal

C8_Witness ==
  /\ last.op = "rpv"
  /\ ~last.admin /\ last.users
  /\ last.credentials # <<>>
  /\ last.platform \in DOMAIN last.credentials[1]
  /\ HasAdmin(last.credentials, last.platform)
  /\ "users" \in DOMAIN last.credentials[1][last.platform]
  /\ ~HasUsers(last.credentials, last.platform)
  /\ last.result = NoneVal

\* the validators' behaviour with "returns None" and "returns
\* ValidationResult(True)" exchanged on the classes of S
Exchanged(S) ==
  [c \in SimpleValidators |->
     IF c \in S /\ Behaviour[c] = "none" THEN "true"
     ELSE IF c \in S /\ Behaviour[c] = "true" THEN "none"
     ELSE Behaviour[c]]

NoneOrTrueInterchangeable ==
  \A S \in SUBSET {c \in SimpleValidators : Behaviour[c] \in {"none", "true"}} :
    ValidateCall(last.before, last.name, last.credentials, last.vtype,
                 Exchanged(S)) = last.ret

AllResultsInvalid ==
  \A r \in DOMAIN last.ret.results : ~last.ret.results[r].is_valid

EmptyIffAllSucceeded ==
  last.ret.results = <<>> <=>
    \A i \in DOMAIN last.ret.log : last.ret.log[i].result.is_valid

\* C9 as claimed: every returned element has is_valid false, the list is
\* empty exactly when every executed validator succeeded, and a validator
\* returning None is interchangeable with one returning ValidationResult(True)
C9_FailuresOnly ==
  Returned =>
    AllResultsInvalid /\ EmptyIffAllSucceeded /\ NoneOrTrueInterchangeable

\* C9 as amended: the list is empty exactly when every executed validator
\* succeeded provided the plugin name resolves; the rest as claimed
C9_FailuresOnlyForFoundPlugin ==
  Returned =>
    /\ AllResultsInvalid
    /\ last.name \in PluginNames => EmptyIffAllSucceeded
    /\ NoneOrTrueInterchangeable

C9_Witness ==
  /\ Returned
  /\ last.name \in PluginNames
  /\ last.ret.results = <<>>
  /\ \E i, j \in DOMAIN last.ret.log :
       /\ last.ret.log[i].cls = "v_none"
       /\ last.ret.log[j].cls = "v_true"

\* C10: a validator runs only if its tier was asked for: a platform
\* validator only with platform, a composite one only with semantic, a
\* simple one only with syntax; no returned failure is of another tier
C10_OnlyRequestedTiers ==
  Returned =>
    LET log == last.ret.log
        asked == AskedTiers(last.vtype)
    IN  /\ \A i \in DOMAIN log :
             /\ log[i].tier \in asked
             /\ log[i].src[2] > 0 => log[i].tier = "platform"
             /\ log[i].src[2] = 0 =>
                  log[i].tier =
                    IF log[i].cls \in RPVClasses THEN "platform"
                    ELSE IF last.before[log[i].cls] # <<>> THEN "semantic"
                    ELSE "syntax"
        /\ last.name \in PluginNames =>
             \A r \in DOMAIN last.ret.results :
               \E i \in DOMAIN log : log[i].result = last.ret.results[r]

C10_Witness ==
  /\ Returned
  /\ AskedTiers(last.vtype) = {"platform"}
  /\ last.ret.log # <<>>
  /\ \E k \in DOMAIN validators["plug"] : validators["plug"][k].name = "v_fail"
  /\ validators["v_fail"] = <<>>
  /\ last.ret.results = <<>>

\* what the partition and the run do with the composite validators of the
\* plugin; shortCircuit says whether "the nested validators run" is meant
\* only for calls in which the syntax tier did not fail
CompositeFolding(shortCircuit) ==
  (Returned /\ last.name \in PluginNames) =>
    LET decls == last.before[last.name]
        asked == AskedTiers(last.vtype)
        log   == last.ret.log
        parts == Partition(last.before,
                           LoadValidators(last.before, last.name).list,
                           1, last.vtype, EmptyTiers)
        at(t, src) == {k \in DOMAIN parts[t] : parts[t][k].src = src}
        ran(src)   == {k \in DOMAIN log : log[k].src = src}
        syntaxFailed == \E k \in DOMAIN log :
                          log[k].tier = "syntax" /\ Failed(log[k])
    IN  \A i \in DOMAIN decls :
          LET nested == last.before[decls[i].name] IN
          (decls[i].name \notin RPVClasses /\ nested # <<>>) =>
            /\ \A j \in DOMAIN nested :
                 /\ at("platform", <<i, j>>) # {} <=> "platform" \in asked
                 /\ \A k \in at("platform", <<i, j>>) :
                      parts["platform"][k].cls = nested[j].name
                 /\ at("syntax", <<i, j>>) = {} /\ at("semantic", <<i, j>>) = {}
            /\ at("semantic", <<i, 0>>) # {} <=> "semantic" \in asked
            /\ at("syntax", <<i, 0>>) = {} /\ at("platform", <<i, 0>>) = {}
            /\ "semantic" \notin asked => ran(<<i, 0>>) = {}
            /\ ("platform" \in asked /\ "semantic" \notin asked
                   /\ (shortCircuit => ~syntaxFailed)) =>
                 \A j \in DOMAIN nested :
                   \E k \in ran(<<i, j>>) : log[k].tier = "platform"
            /\ (\E j \in DOMAIN nested : \E k \in ran(<<i, j>>) : Failed(log[k]))
                 => ran(<<i, 0>>) = {}

RECURSIVE IsSubclass(_, _)
IsSubclass(c, plugin) ==
  IF c = NoClass THEN FALSE
  ELSE c = plugin \/ IsSubclass(Parent[c], plugin)

\* C13: add_default never raises and appends exactly one declaration to the
\* default list of the decorated class, which its subclasses inherit; the
\* default lists seen by its ancestors and by classes that are not its
\* subclasses stay as they were, also when the class inherited its defaults
C13_AddDefaultLocal ==
  last.op = "add_default" =>
    /\ ~last.raised
    /\ DefaultValidators(default_meta, last.plugin) =
         Append(DefaultValidators(last.before, last.plugin),
                [name |-> last.name, args |-> <<>>, kwargs |-> last.kwargs])
    /\ \A c \in DefaultClasses :
         IF IsSubclass(c, last.plugin)
           THEN Owner(last.before, c) = Owner(last.before, last.plugin) =>
                  DefaultValidators(default_meta, c) =
                    DefaultValidators(default_meta, last.plugin)
           ELSE DefaultValidators(default_meta, c) =
                  DefaultValidators(last.before, c)

====
